---- MODULE Spec2Model ----
(***************************************************************************)
(* The bank assignment client (BankAssignment component) and the record    *)
(* store it talks to.  Text values are sequences of one-character strings, *)
(* so that trimming and the zod schema rules are computed, not assumed.    *)
(***************************************************************************)
EXTENDS Bags, FiniteSets, Integers, Sequences, TLC

VARIABLES
    mounted,      \* the client instances that exist (browser tabs)
    store,        \* the spreadsheet rows, by id
    storedName,   \* localStorage key userName, per client
    userName,     \* useState userName
    currentBank,  \* useState currentBank (NoBank is null)
    loading,      \* useState loading
    error,        \* useState error (NoError is null)
    draft,        \* react-hook-form field values
    fieldErrors,  \* react-hook-form formState.errors (names of the fields)
    effectDue,    \* the assignment effect is scheduled with a true condition
    runs,         \* the async function activations awaiting the store, a bag
    ops,          \* number of caller actions taken so far
    fails,        \* number of store requests that failed so far
    lastStep      \* the step taken last: its operation, client and activation

vars == <<mounted, store, storedName, userName, currentBank, loading, error,
          draft, fieldErrors, effectDue, runs, ops, fails, lastStep>>

----
\* Bounds of the model.
NumBanks == 2
MaxOps == 2
MaxFails == 1
MaxPending == 2

Clients == {"c1", "c2"}
Ids == 1..NumBanks

----
\* Text values.
UNDEF == <<"undefined">>
UNSET == "undefined"
Empty == <<>>

Digits == {"0", "1", "2", "3", "4", "5", "6", "7", "8", "9"}
UpperCase == {"A", "B", "C", "D", "E", "F", "G", "H", "I", "J", "K", "L", "M",
              "N", "O", "P", "Q", "R", "S", "T", "U", "V", "W", "X", "Y", "Z"}
LowerCase == {"a", "b", "c", "d", "e", "f", "g", "h", "i", "j", "k", "l", "m",
              "n", "o", "p", "q", "r", "s", "t", "u", "v", "w", "x", "y", "z"}
Whitespace == {" ", "\t", "\n"}

\* JavaScript truthiness of an optional string: undefined and "" are falsy.
Falsy(v) == v = UNDEF \/ v = Empty
FalsyEnum(v) == v = UNSET \/ v = ""

RECURSIVE TrimStart(_)
TrimStart(s) ==
    IF s = <<>> THEN s
    ELSE IF Head(s) \in Whitespace THEN TrimStart(Tail(s)) ELSE s

RECURSIVE TrimEnd(_)
TrimEnd(s) ==
    IF s = <<>> THEN s
    ELSE IF s[Len(s)] \in Whitespace THEN TrimEnd(SubSeq(s, 1, Len(s) - 1)) ELSE s

\* Fault injection into Trim: only the leading whitespace is removed.
TrimLeadingOnly(s) == TrimStart(s)

\* String.prototype.trim
Trim(s) == TrimEnd(TrimStart(s))

\* s.split(' ').length
SplitSpaceLength(s) == Cardinality({i \in 1..Len(s) : s[i] = " "}) + 1

AllIn(s, chars) == \A i \in 1..Len(s) : s[i] \in chars

----
\* formSchema
PhoneMin == 10
PhoneMax == 15
AddressMin == 10
AddressMax == 200
BranchMin == 3
BranchMax == 100
RemarksMax == 500

PhoneResponses == {"toll_free", "registered_only", "invalid_number",
                   "no_response", "switched_off", "number_not_found"}
Responses == {"address_change", "branch_name_change", "no_change_in_address",
              "bank_shift"}

\* Fault injection into PhoneNumberValid: the refinement on the first digit
\* is missing.
PhoneNumberValidWithoutRefine(v) ==
    /\ v # UNDEF
    /\ Len(v) >= PhoneMin
    /\ Len(v) <= PhoneMax
    /\ Len(v) >= 1 /\ AllIn(v, Digits)

PhoneNumberValid(v) ==
    /\ v # UNDEF
    /\ Len(v) >= PhoneMin
    /\ Len(v) <= PhoneMax
    /\ Len(v) >= 1 /\ AllIn(v, Digits)
    /\ ~(Len(v) >= 1 /\ v[1] = "0")

PhoneResponseValid(v) == v \in PhoneResponses

ResponseValid(v) == v = UNSET \/ v \in Responses

UpdateAddressValid(v) ==
    \/ v = UNDEF
    \/ /\ Len(v) >= AddressMin
       /\ Len(v) <= AddressMax
       /\ Len(v) >= 1 /\ AllIn(v, UpperCase \cup LowerCase \cup Digits \cup Whitespace \cup {",", ".", "-"})
       /\ (Falsy(v) \/ SplitSpaceLength(Trim(v)) >= 3)

UpdatedBranchNameValid(v) ==
    \/ v = UNDEF
    \/ /\ Len(v) >= BranchMin
       /\ Len(v) <= BranchMax
       /\ Len(v) >= 1 /\ AllIn(v, UpperCase \cup LowerCase \cup Digits \cup Whitespace \cup {"-"})
       /\ (Falsy(v) \/ v[1] \in UpperCase)

RemarksValid(v) == v = UNDEF \/ Len(v) <= RemarksMax

\* The names of the fields the resolver reports an error for.
SchemaErrors(d) ==
    {f \in {"phoneNumber"} : ~PhoneNumberValid(d.phoneNumber)}
    \cup {f \in {"phoneResponse"} : ~PhoneResponseValid(d.phoneResponse)}
    \cup {f \in {"response"} : ~ResponseValid(d.response)}
    \cup {f \in {"updateAddress"} : ~UpdateAddressValid(d.updateAddress)}
    \cup {f \in {"updatedBranchName"} : ~UpdatedBranchNameValid(d.updatedBranchName)}
    \cup {f \in {"remarks"} : ~RemarksValid(d.remarks)}

\* The parsed output of the schema: remarks goes through val || "".
ParsedValues(d) == [d EXCEPT !.remarks = IF Falsy(d.remarks) THEN Empty ELSE d.remarks]

\* useForm defaultValues; the other fields are undefined.
DefaultDraft ==
    [phoneNumber |-> Empty, phoneResponse |-> UNSET, response |-> UNSET,
     updateAddress |-> UNDEF, updatedBranchName |-> UNDEF, remarks |-> Empty]

----
\* Bank records (src/types/bank.ts) and the store.
NoBank == [id |-> 0]
NoError == "null"

OutcomeFields == {"phoneNumber", "phoneResponse", "response", "updateAddress",
                  "updatedBranchName", "remarks"}
EnumFields == {"phoneResponse", "response"}
DescriptiveFields == {"id", "ufi", "bankName", "ifscCode", "branchName", "address"}

Bob == <<"B", "o", "b">>

\* A row nobody has worked on yet, claimed by owner or (owner = Empty) by nobody.
FreshRow(i, owner) ==
    [id |-> i, ufi |-> <<"ufi", i>>, bankName |-> <<"bankName", i>>,
     ifscCode |-> <<"ifscCode", i>>, branchName |-> <<"branchName", i>>,
     address |-> <<"address", i>>, userName |-> owner,
     phoneNumber |-> Empty, phoneResponse |-> "", response |-> "",
     updateAddress |-> Empty, updatedBranchName |-> Empty, remarks |-> Empty]

\* GET {base}: the rows in id order.
FetchAll(st) == [i \in Ids |-> st[i]]

\* One cell of a PUT body as the sheet stores it: JSON drops an undefined
\* key, and a key that is missing leaves the cell empty.
Cell(f, v) ==
    IF f \in EnumFields THEN (IF v = UNSET THEN "" ELSE v)
    ELSE (IF v = UNDEF THEN Empty ELSE v)

\* PUT {base}/{id}: the addressed row is overwritten with the body.
UpdateById(st, i, body) ==
    [st EXCEPT ![i] = [f \in DOMAIN body |->
                          IF f = "id" THEN i ELSE Cell(f, body[f])]]

----
\* Messages of setError.
NoAvailabilityMsg == "No unassigned banks available at the moment."
FetchFailedMsg == "Failed to fetch bank details. Please try again."
FetchAllFailedMsg == "Failed to fetch all banks. Please try again."
CancelFailedMsg == "Failed to cancel assignment. Please try again."
UpdateFailedMsg == "Failed to update bank information. Please try again."
ResponseRequiredMsg == "Response type is required for successful calls"
AddressRequiredMsg == "Updated address is required for address change"
BranchRequiredMsg == "Updated branch name is required for branch name change"
ShiftRequiredMsg == "Updated address is required for bank shift"

\* Fault injections into RuleError: the address_change check is missing; the
\* response is required whatever the phoneResponse; the bank_shift check is
\* missing.
RuleErrorWithoutAddressCheck(values) ==
    IF values.phoneResponse \in {"toll_free", "registered_only"} /\ FalsyEnum(values.response)
    THEN ResponseRequiredMsg
    ELSE IF values.response = "branch_name_change" /\ Falsy(values.updatedBranchName)
    THEN BranchRequiredMsg
    ELSE IF values.response = "bank_shift" /\ Falsy(values.updateAddress)
    THEN ShiftRequiredMsg
    ELSE NoError

RuleErrorResponseAlwaysRequired(values) ==
    IF FalsyEnum(values.response)
    THEN ResponseRequiredMsg
    ELSE IF values.response = "address_change" /\ Falsy(values.updateAddress)
    THEN AddressRequiredMsg
    ELSE IF values.response = "branch_name_change" /\ Falsy(values.updatedBranchName)
    THEN BranchRequiredMsg
    ELSE IF values.response = "bank_shift" /\ Falsy(values.updateAddress)
    THEN ShiftRequiredMsg
    ELSE NoError

RuleErrorWithoutShiftCheck(values) ==
    IF values.phoneResponse \in {"toll_free", "registered_only"} /\ FalsyEnum(values.response)
    THEN ResponseRequiredMsg
    ELSE IF values.response = "address_change" /\ Falsy(values.updateAddress)
    THEN AddressRequiredMsg
    ELSE IF values.response = "branch_name_change" /\ Falsy(values.updatedBranchName)
    THEN BranchRequiredMsg
    ELSE NoError

\* onSubmit: the conditional checks, in source order; NoError when all pass.
successfulResponses == {"toll_free", "registered_only"}

RuleError(values) ==
    IF values.phoneResponse \in successfulResponses /\ FalsyEnum(values.response)
    THEN ResponseRequiredMsg
    ELSE IF values.response = "address_change" /\ Falsy(values.updateAddress)
    THEN AddressRequiredMsg
    ELSE IF values.response = "branch_name_change" /\ Falsy(values.updatedBranchName)
    THEN BranchRequiredMsg
    ELSE IF values.response = "bank_shift" /\ Falsy(values.updateAddress)
    THEN ShiftRequiredMsg
    ELSE NoError

\* Fault injection into SubmitBody: the spread order is reversed.
SubmitBodyBankOverValues(bank, values) ==
    [f \in DOMAIN bank \cup DOMAIN values |->
        IF f \in DOMAIN bank THEN bank[f] ELSE values[f]]

\* onSubmit: { ...currentBank, ...values }
SubmitBody(bank, values) ==
    [f \in DOMAIN bank |-> IF f \in DOMAIN values THEN values[f] ELSE bank[f]]

\* handleCancel: { ...currentBank, userName: "", phoneNumber: "", ... }
CancelBody(bank) ==
    [bank EXCEPT !.userName = Empty, !.phoneNumber = Empty, !.response = "",
                 !.updateAddress = Empty, !.updatedBranchName = Empty,
                 !.remarks = Empty]

\* Fault injection into ClaimBody: the claim does not carry the address.
ClaimBodyWithoutAddress(randomBank, name) ==
    [randomBank EXCEPT !.userName = name, !.address = Empty]

\* fetchUnassignedBank: { ...randomBank, userName }
ClaimBody(randomBank, name) == [randomBank EXCEPT !.userName = name]

\* Fault injection into UnassignedBanks: the filter is inverted.
UnassignedBanksInverted(banks) == SelectSeq(banks, LAMBDA bank : ~Falsy(bank.userName))

\* fetchUnassignedBank: banks.filter(bank => !bank.userName)
UnassignedBanks(banks) == SelectSeq(banks, LAMBDA bank : Falsy(bank.userName))

----
\* Activations of the async functions, each waiting for one store response
\* (or for the timer of handleCancel).  uname and bank are the userName and
\* currentBank of the render whose closure the activation runs in.
NoRun == [kind |-> "none"]

NewRun(kind, pc, uname, bank, body) ==
    [kind |-> kind, pc |-> pc, uname |-> uname, bank |-> bank,
     banks |-> <<>>, picked |-> NoBank, body |-> body]

RunsOf(c) == BagToSet(runs[c])
AddRun(B, r) == B (+) SetToBag({r})
DropRun(B, r) == B (-) SetToBag({r})

\* Fault injection into EffectFires: the condition does not test userName.
EffectFiresWithoutName(c, name, bank, busy) ==
    /\ <<name, bank, busy>> # <<userName[c], currentBank[c], loading[c]>>
    /\ bank = NoBank
    /\ ~busy

\* The dependency check of useEffect(..., [userName, currentBank, loading])
\* after a render with the new values, and the condition of its body.
EffectFires(c, name, bank, busy) ==
    /\ <<name, bank, busy>> # <<userName[c], currentBank[c], loading[c]>>
    /\ name # Empty
    /\ bank = NoBank
    /\ ~busy

\* One render: the batched state updates of a step and the effect it schedules.
Render(c, name, bank, busy, err) ==
    /\ userName' = [userName EXCEPT ![c] = name]
    /\ currentBank' = [currentBank EXCEPT ![c] = bank]
    /\ loading' = [loading EXCEPT ![c] = busy]
    /\ error' = [error EXCEPT ![c] = err]
    /\ effectDue' = [effectDue EXCEPT ![c] = effectDue[c] \/ EffectFires(c, name, bank, busy)]

Step(op, c, r) == lastStep' = [op |-> op, c |-> c, run |-> r]

\* What the caller typed, recorded in place of an activation.
Typed(input) == [kind |-> "input", value |-> input]

----
\* The inputs of the caller.
Al == <<"A", "l">>
Cy == <<"C", "y">>
PromptNull == UNDEF
NameInputs == {Empty, <<" ", "\t">>, <<" ", "C", "y", " ">>}

PhoneGood == <<"9", "8", "7", "6", "5", "4", "3", "2", "1", "0">>
PhoneLeadingZero == <<"0">> \o PhoneGood
AddressGood == <<"1", "2", " ", "M", "a", "i", "n", " ", "S", "t">>
BranchGood == <<"F", "o", "r", "t">>

\* 9, 15 and 16 digits; ten characters with a letter.
PhoneShort == SubSeq(PhoneGood, 1, 9)
PhoneLong == PhoneGood \o SubSeq(PhoneGood, 1, 5)
PhoneTooLong == PhoneGood \o SubSeq(PhoneGood, 1, 6)
PhoneWithLetter == SubSeq(PhoneGood, 1, 9) \o <<"x">>

\* "12 Main S", "12 Mainstreet", "12/3 Main St", "12 Main St<TAB>A", "12  MainSt"
AddressShort == SubSeq(AddressGood, 1, 9)
AddressTwoWords == <<"1", "2", " ", "M", "a", "i", "n", "s", "t", "r", "e", "e", "t">>
AddressWithSlash == <<"1", "2", "/", "3", " ", "M", "a", "i", "n", " ", "S", "t">>
AddressWithTab == AddressGood \o <<"\t", "A">>
AddressDoubleSpace == <<"1", "2", " ", " ", "M", "a", "i", "n", "S", "t">>

Draft(phone, phoneResponse, response, address, branch, remarks) ==
    [phoneNumber |-> phone, phoneResponse |-> phoneResponse, response |-> response,
     updateAddress |-> address, updatedBranchName |-> branch, remarks |-> remarks]

Drafts ==
    { DefaultDraft,
      Draft(PhoneGood, UNSET, UNSET, UNDEF, UNDEF, Empty),
      Draft(PhoneLeadingZero, "toll_free", "no_change_in_address", UNDEF, UNDEF, Empty),
      Draft(PhoneGood, "no_response", UNSET, UNDEF, UNDEF, Empty),
      Draft(PhoneGood, "toll_free", UNSET, UNDEF, UNDEF, Empty),
      Draft(PhoneGood, "toll_free", "address_change", UNDEF, UNDEF, Empty),
      Draft(PhoneGood, "toll_free", "address_change", Empty, UNDEF, Empty),
      Draft(PhoneGood, "toll_free", "address_change", AddressGood, UNDEF, UNDEF),
      Draft(PhoneGood, "registered_only", "branch_name_change", UNDEF, UNDEF, Empty),
      Draft(PhoneGood, "registered_only", "branch_name_change", UNDEF, BranchGood, Empty),
      Draft(PhoneGood, "toll_free", "bank_shift", UNDEF, UNDEF, Empty),
      Draft(PhoneGood, "no_response", "bank_shift", AddressGood, UNDEF, Empty),
      Draft(PhoneGood, "toll_free", "no_change_in_address", AddressGood, UNDEF, Empty),
      Draft(PhoneShort, "no_response", UNSET, UNDEF, UNDEF, Empty),
      Draft(PhoneLong, "no_response", UNSET, UNDEF, UNDEF, Empty),
      Draft(PhoneTooLong, "no_response", UNSET, UNDEF, UNDEF, Empty),
      Draft(PhoneWithLetter, "no_response", UNSET, UNDEF, UNDEF, Empty),
      Draft(PhoneLeadingZero, "toll_free", UNSET, UNDEF, UNDEF, Empty),
      Draft(PhoneLeadingZero, "toll_free", "address_change", UNDEF, UNDEF, Empty),
      Draft(PhoneGood, "toll_free", "address_change", AddressShort, UNDEF, Empty),
      Draft(PhoneGood, "toll_free", "address_change", AddressTwoWords, UNDEF, Empty),
      Draft(PhoneGood, "toll_free", "address_change", AddressWithSlash, UNDEF, Empty),
      Draft(PhoneGood, "toll_free", "address_change", AddressWithTab, UNDEF, Empty),
      Draft(PhoneGood, "toll_free", "bank_shift", AddressDoubleSpace, UNDEF, Empty) }

\* The drafts the whole client is explored with: one the schema rejects, one
\* a conditional check rejects, one that is submitted.
CoreDrafts ==
    { DefaultDraft,
      Draft(PhoneGood, "toll_free", UNSET, UNDEF, UNDEF, Empty),
      Draft(PhoneGood, "toll_free", "address_change", AddressGood, UNDEF, UNDEF) }

\* Two drafts that the schema and the conditional checks accept.
LoopDrafts ==
    { Draft(PhoneGood, "toll_free", "address_change", AddressGood, UNDEF, UNDEF),
      Draft(PhoneGood, "no_response", UNSET, UNDEF, UNDEF, Empty) }

----
\* The state after the component has mounted: the mount effect has called
\* fetchAllBanks, and the assignment effect, whose closure still sees
\* loading = false, has called fetchUnassignedBank if a name was stored.
MountRuns(name) ==
    IF name = Empty
    THEN SetToBag({NewRun("fetchAll", "get", name, NoBank, NoBank)})
    ELSE SetToBag({NewRun("fetchAll", "get", name, NoBank, NoBank)})
         (+) SetToBag({NewRun("select", "get", name, NoBank, NoBank)})

InitWith(tabs, used) ==
    /\ mounted = tabs
    /\ store \in [Ids -> UNION {{FreshRow(i, Empty), FreshRow(i, Bob)} : i \in Ids}]
    /\ \A i \in Ids : store[i].id = i
    /\ storedName \in [Clients -> {Empty, Al}]
    /\ \A c \in Clients \ tabs : storedName[c] = Empty
    /\ userName = storedName
    /\ currentBank = [c \in Clients |-> NoBank]
    /\ loading = [c \in Clients |-> c \in tabs]
    /\ error = [c \in Clients |-> NoError]
    /\ draft = [c \in Clients |-> DefaultDraft]
    /\ fieldErrors = [c \in Clients |-> {}]
    /\ effectDue = [c \in Clients |-> FALSE]
    /\ runs = [c \in Clients |-> IF c \in tabs THEN MountRuns(storedName[c]) ELSE EmptyBag]
    /\ ops = used
    /\ fails = 0
    /\ lastStep = [op |-> "mount", c |-> "c1", run |-> NoRun]

Init == InitWith({"c1"}, 0)

----
\* fetchUnassignedBank, up to its first await: setLoading(true), setError(null)
\* and the GET, called with the userName of the closure it is called from.
StartSelect(c, name) == NewRun("select", "get", name, NoBank, NoBank)

\* useEffect(() => { if (userName && !currentBank && !loading)
\*   fetchUnassignedBank() }, [userName, currentBank, loading]): the scheduled
\* effect runs before anything else of this client is processed.
RunEffect(c) ==
    /\ effectDue[c]
    /\ runs' = [runs EXCEPT ![c] = AddRun(runs[c], StartSelect(c, userName[c]))]
    /\ loading' = [loading EXCEPT ![c] = TRUE]
    /\ error' = [error EXCEPT ![c] = NoError]
    /\ effectDue' = [effectDue EXCEPT ![c] = FALSE]
    /\ Step("effect", c, StartSelect(c, userName[c]))
    /\ UNCHANGED <<mounted, store, storedName, userName, currentBank, draft,
                   fieldErrors, ops, fails>>

\* The "Try Again" button of the card shown without a current bank; it is
\* enabled in the committed render when an error is shown and loading is false.
Retry(c) ==
    /\ userName[c] # Empty /\ currentBank[c] = NoBank
    /\ error[c] # NoError /\ ~loading[c]
    /\ ops < MaxOps
    /\ runs' = [runs EXCEPT ![c] = AddRun(runs[c], StartSelect(c, userName[c]))]
    /\ loading' = [loading EXCEPT ![c] = TRUE]
    /\ error' = [error EXCEPT ![c] = NoError]
    /\ ops' = ops + 1
    /\ Step("retry", c, StartSelect(c, userName[c]))
    /\ UNCHANGED <<mounted, store, storedName, userName, currentBank, draft,
                   fieldErrors, effectDue, fails>>

\* The name form (shown while userName is empty) and handleNameSubmit.
NameSubmit(c, input) ==
    /\ userName[c] = Empty
    /\ ~effectDue[c]
    /\ ops < MaxOps
    /\ ops' = ops + 1
    /\ Step("nameSubmit", c, Typed(input))
    /\ IF input # Empty /\ Trim(input) # Empty
       THEN /\ storedName' = [storedName EXCEPT ![c] = Trim(input)]
            /\ Render(c, Trim(input), currentBank[c], loading[c], error[c])
       ELSE UNCHANGED <<storedName, userName, currentBank, loading, error, effectDue>>
    /\ UNCHANGED <<mounted, store, draft, fieldErrors, runs, fails>>

\* Fault injection into NameChange: the new name is stored without the test
\* of its trimmed value.
NameChangeWithoutTest(c, input) ==
    /\ userName[c] # Empty /\ currentBank[c] # NoBank
    /\ ~effectDue[c]
    /\ ops < MaxOps
    /\ ops' = ops + 1
    /\ Step("nameChange", c, Typed(input))
    /\ IF input # PromptNull
       THEN /\ storedName' = [storedName EXCEPT ![c] = Trim(input)]
            /\ Render(c, Trim(input), currentBank[c], loading[c], error[c])
       ELSE UNCHANGED <<storedName, userName, currentBank, loading, error, effectDue>>
    /\ UNCHANGED <<mounted, store, draft, fieldErrors, runs, fails>>

\* The "Change Name" button of the bank card and handleNameChange; input is
\* what window.prompt returns, PromptNull when the prompt is dismissed.
NameChange(c, input) ==
    /\ userName[c] # Empty /\ currentBank[c] # NoBank
    /\ ~effectDue[c]
    /\ ops < MaxOps
    /\ ops' = ops + 1
    /\ Step("nameChange", c, Typed(input))
    /\ IF input # PromptNull /\ Trim(input) # Empty
       THEN /\ storedName' = [storedName EXCEPT ![c] = Trim(input)]
            /\ Render(c, Trim(input), currentBank[c], loading[c], error[c])
       ELSE UNCHANGED <<storedName, userName, currentBank, loading, error, effectDue>>
    /\ UNCHANGED <<mounted, store, draft, fieldErrors, runs, fails>>

\* "Cancel and Skip" (disabled while loading) and handleCancel up to its PUT.
Cancel(c) ==
    /\ userName[c] # Empty /\ currentBank[c] # NoBank
    /\ ~loading[c] /\ ~effectDue[c]
    /\ ops < MaxOps
    /\ ops' = ops + 1
    /\ LET r == NewRun("cancel", "put", userName[c], currentBank[c],
                       CancelBody(currentBank[c]))
       IN /\ runs' = [runs EXCEPT ![c] = AddRun(runs[c], r)]
          /\ Step("cancel", c, r)
    /\ Render(c, userName[c], currentBank[c], TRUE, NoError)
    /\ UNCHANGED <<mounted, store, storedName, draft, fieldErrors, fails>>

\* "Submit and Get Next" (disabled while loading): form.handleSubmit runs the
\* resolver on the field values d and calls onSubmit only with a valid parse;
\* onSubmit runs up to its PUT or to the return of a failed check.
HandleSubmit(c, d) ==
    /\ userName[c] # Empty /\ currentBank[c] # NoBank
    /\ ~loading[c] /\ ~effectDue[c]
    /\ draft' = [draft EXCEPT ![c] = d]
    /\ fieldErrors' = [fieldErrors EXCEPT ![c] = SchemaErrors(d)]
    /\ IF SchemaErrors(d) # {}
       THEN /\ Step("submitInvalid", c, NoRun)
            /\ UNCHANGED <<userName, currentBank, loading, error, effectDue, runs>>
       ELSE IF RuleError(ParsedValues(d)) # NoError
       THEN /\ Step("submitRejected", c, NoRun)
            /\ Render(c, userName[c], currentBank[c], FALSE, RuleError(ParsedValues(d)))
            /\ UNCHANGED runs
       ELSE LET r == NewRun("submit", "put", userName[c], currentBank[c],
                            SubmitBody(currentBank[c], ParsedValues(d)))
            IN /\ runs' = [runs EXCEPT ![c] = AddRun(runs[c], r)]
               /\ Step("submit", c, r)
               /\ Render(c, userName[c], currentBank[c], TRUE, NoError)
    /\ UNCHANGED <<mounted, store, storedName, fails>>

\* Fault injection into Submit: the conditional checks run before the
\* resolver's result is looked at.
SubmitRulesFirst(c, d) ==
    /\ userName[c] # Empty /\ currentBank[c] # NoBank
    /\ ~loading[c] /\ ~effectDue[c]
    /\ ops < MaxOps
    /\ ops' = ops + 1
    /\ draft' = [draft EXCEPT ![c] = d]
    /\ fieldErrors' = [fieldErrors EXCEPT ![c] = SchemaErrors(d)]
    /\ IF RuleError(ParsedValues(d)) # NoError
       THEN /\ Step("submitRejected", c, NoRun)
            /\ Render(c, userName[c], currentBank[c], FALSE, RuleError(ParsedValues(d)))
            /\ UNCHANGED runs
       ELSE IF SchemaErrors(d) # {}
       THEN /\ Step("submitInvalid", c, NoRun)
            /\ UNCHANGED <<userName, currentBank, loading, error, effectDue, runs>>
       ELSE LET r == NewRun("submit", "put", userName[c], currentBank[c],
                            SubmitBody(currentBank[c], ParsedValues(d)))
            IN /\ runs' = [runs EXCEPT ![c] = AddRun(runs[c], r)]
               /\ Step("submit", c, r)
               /\ Render(c, userName[c], currentBank[c], TRUE, NoError)
    /\ UNCHANGED <<mounted, store, storedName, fails>>

\* A submission, counted as one of the caller's actions.
Submit(c, d) ==
    /\ ops < MaxOps
    /\ ops' = ops + 1
    /\ HandleSubmit(c, d)

----
\* The store answers a pending request and the awaiting activation resumes.
\* A response is processed only after the scheduled effect has run.
Awaiting(c, r) == c \in mounted /\ ~effectDue[c] /\ r \in RunsOf(c)

CanFail == fails < MaxFails

\* fetchAllBanks after its GET: setAllBanks or the catch, then the finally.
FetchAllDone(c, r, ok) ==
    /\ Awaiting(c, r)
    /\ r.kind = "fetchAll"
    /\ ok \/ CanFail
    /\ fails' = IF ok THEN fails ELSE fails + 1
    /\ runs' = [runs EXCEPT ![c] = DropRun(runs[c], r)]
    /\ Render(c, userName[c], currentBank[c], FALSE,
              IF ok THEN error[c] ELSE FetchAllFailedMsg)
    /\ Step(IF ok THEN "fetchAllOk" ELSE "fetchAllFailed", c, r)
    /\ UNCHANGED <<mounted, store, storedName, draft, fieldErrors, ops>>

\* An activation of fetchUnassignedBank (called by the effect, the retry
\* button or onSubmit, or awaited by handleCancel) waiting for its GET / PUT.
Selecting(r) == (r.kind = "select" /\ r.pc = "get") \/ (r.kind = "cancel" /\ r.pc = "selGet")
Claiming(r) == (r.kind = "select" /\ r.pc = "put") \/ (r.kind = "cancel" /\ r.pc = "selPut")

\* fetchUnassignedBank: the GET fails; catch and finally (and the finally of
\* handleCancel when it awaits this call).
SelectGetFailed(c, r) ==
    /\ Awaiting(c, r)
    /\ Selecting(r)
    /\ CanFail
    /\ fails' = fails + 1
    /\ runs' = [runs EXCEPT ![c] = DropRun(runs[c], r)]
    /\ Render(c, userName[c], currentBank[c], FALSE, FetchFailedMsg)
    /\ Step("selectGetFailed", c, r)
    /\ UNCHANGED <<mounted, store, storedName, draft, fieldErrors, ops>>

\* Fault injection into SelectNone: the empty result goes through the catch.
SelectNoneThroughCatch(c, r) ==
    /\ Awaiting(c, r)
    /\ Selecting(r)
    /\ Len(UnassignedBanks(FetchAll(store))) = 0
    /\ runs' = [runs EXCEPT ![c] = DropRun(runs[c], r)]
    /\ Render(c, userName[c], currentBank[c], FALSE, FetchFailedMsg)
    /\ Step("selectNone", c, [r EXCEPT !.banks = FetchAll(store)])
    /\ UNCHANGED <<mounted, store, storedName, draft, fieldErrors, ops, fails>>

\* fetchUnassignedBank: the GET answers with no unassigned bank.
SelectNone(c, r) ==
    /\ Awaiting(c, r)
    /\ Selecting(r)
    /\ Len(UnassignedBanks(FetchAll(store))) = 0
    /\ runs' = [runs EXCEPT ![c] = DropRun(runs[c], r)]
    /\ Render(c, userName[c], currentBank[c], FALSE, NoAvailabilityMsg)
    /\ Step("selectNone", c, [r EXCEPT !.banks = FetchAll(store)])
    /\ UNCHANGED <<mounted, store, storedName, draft, fieldErrors, ops, fails>>

\* fetchUnassignedBank: the GET answers, Math.random picks randomIndex among
\* the unassigned banks, and the claim PUT is sent.
SelectPick(c, r, randomIndex) ==
    /\ Awaiting(c, r)
    /\ Selecting(r)
    /\ randomIndex \in 1..Len(UnassignedBanks(FetchAll(store)))
    /\ LET banks == FetchAll(store)
           randomBank == UnassignedBanks(banks)[randomIndex]
           r2 == [r EXCEPT !.pc = IF r.kind = "select" THEN "put" ELSE "selPut",
                           !.banks = banks, !.picked = randomBank,
                           !.body = ClaimBody(randomBank, r.uname)]
       IN /\ runs' = [runs EXCEPT ![c] = AddRun(DropRun(runs[c], r), r2)]
          /\ Step("selectPick", c, r2)
    /\ UNCHANGED <<mounted, store, storedName, userName, currentBank, loading,
                   error, draft, fieldErrors, effectDue, ops, fails>>

\* Fault injection into ClaimDone: setCurrentBank runs whether or not the
\* PUT succeeded.
ClaimDonePresentsAlways(c, r, ok) ==
    /\ Awaiting(c, r)
    /\ Claiming(r)
    /\ ok \/ CanFail
    /\ fails' = IF ok THEN fails ELSE fails + 1
    /\ store' = IF ok THEN UpdateById(store, r.picked.id, r.body) ELSE store
    /\ runs' = [runs EXCEPT ![c] = DropRun(runs[c], r)]
    /\ Render(c, userName[c], r.picked, FALSE,
              IF ok THEN error[c] ELSE FetchFailedMsg)
    /\ Step(IF ok THEN "claimOk" ELSE "claimFailed", c, r)
    /\ UNCHANGED <<mounted, storedName, draft, fieldErrors, ops>>

\* Fault injection into ClaimDone: the store keeps the userName of a row
\* that is already claimed.
ClaimDoneFirstClaimStays(c, r, ok) ==
    /\ Awaiting(c, r)
    /\ Claiming(r)
    /\ ok \/ CanFail
    /\ fails' = IF ok THEN fails ELSE fails + 1
    /\ store' = IF ok /\ Falsy(store[r.picked.id].userName)
                THEN UpdateById(store, r.picked.id, r.body) ELSE store
    /\ runs' = [runs EXCEPT ![c] = DropRun(runs[c], r)]
    /\ Render(c, userName[c], IF ok THEN r.picked ELSE currentBank[c], FALSE,
              IF ok THEN error[c] ELSE FetchFailedMsg)
    /\ Step(IF ok THEN "claimOk" ELSE "claimFailed", c, r)
    /\ UNCHANGED <<mounted, storedName, draft, fieldErrors, ops>>

\* fetchUnassignedBank after its PUT: setCurrentBank(randomBank), or the
\* catch when the PUT failed; then the finally.
ClaimDone(c, r, ok) ==
    /\ Awaiting(c, r)
    /\ Claiming(r)
    /\ ok \/ CanFail
    /\ fails' = IF ok THEN fails ELSE fails + 1
    /\ store' = IF ok THEN UpdateById(store, r.picked.id, r.body) ELSE store
    /\ runs' = [runs EXCEPT ![c] = DropRun(runs[c], r)]
    /\ Render(c, userName[c], IF ok THEN r.picked ELSE currentBank[c], FALSE,
              IF ok THEN error[c] ELSE FetchFailedMsg)
    /\ Step(IF ok THEN "claimOk" ELSE "claimFailed", c, r)
    /\ UNCHANGED <<mounted, storedName, draft, fieldErrors, ops>>

\* onSubmit after its PUT succeeded: setCurrentBank(null), form.reset(), the
\* call of fetchUnassignedBank that is not awaited, and the finally.
SubmitOk(c, r) ==
    /\ Awaiting(c, r)
    /\ r.kind = "submit"
    /\ store' = UpdateById(store, r.bank.id, r.body)
    /\ runs' = [runs EXCEPT ![c] = AddRun(DropRun(runs[c], r), StartSelect(c, r.uname))]
    /\ draft' = [draft EXCEPT ![c] = DefaultDraft]
    /\ fieldErrors' = [fieldErrors EXCEPT ![c] = {}]
    /\ Render(c, userName[c], NoBank, FALSE, NoError)
    /\ Step("submitOk", c, r)
    /\ UNCHANGED <<mounted, storedName, ops, fails>>

\* Fault injection into SubmitFailed: the finally is missing.
SubmitFailedWithoutFinally(c, r) ==
    /\ Awaiting(c, r)
    /\ r.kind = "submit"
    /\ CanFail
    /\ fails' = fails + 1
    /\ runs' = [runs EXCEPT ![c] = DropRun(runs[c], r)]
    /\ Render(c, userName[c], currentBank[c], loading[c], UpdateFailedMsg)
    /\ Step("submitFailed", c, r)
    /\ UNCHANGED <<mounted, store, storedName, draft, fieldErrors, ops>>

\* onSubmit after its PUT failed: the catch and the finally.
SubmitFailed(c, r) ==
    /\ Awaiting(c, r)
    /\ r.kind = "submit"
    /\ CanFail
    /\ fails' = fails + 1
    /\ runs' = [runs EXCEPT ![c] = DropRun(runs[c], r)]
    /\ Render(c, userName[c], currentBank[c], FALSE, UpdateFailedMsg)
    /\ Step("submitFailed", c, r)
    /\ UNCHANGED <<mounted, store, storedName, draft, fieldErrors, ops>>

\* handleCancel after its PUT succeeded: the settling delay starts.
CancelPutOk(c, r) ==
    /\ Awaiting(c, r)
    /\ r.kind = "cancel" /\ r.pc = "put"
    /\ store' = UpdateById(store, r.bank.id, r.body)
    /\ runs' = [runs EXCEPT ![c] = AddRun(DropRun(runs[c], r), [r EXCEPT !.pc = "delay"])]
    /\ Step("cancelPutOk", c, r)
    /\ UNCHANGED <<mounted, storedName, userName, currentBank, loading, error,
                   draft, fieldErrors, effectDue, ops, fails>>

\* handleCancel after its PUT failed: the catch and the finally.
CancelFailed(c, r) ==
    /\ Awaiting(c, r)
    /\ r.kind = "cancel" /\ r.pc = "put"
    /\ CanFail
    /\ fails' = fails + 1
    /\ runs' = [runs EXCEPT ![c] = DropRun(runs[c], r)]
    /\ Render(c, userName[c], currentBank[c], FALSE, CancelFailedMsg)
    /\ Step("cancelFailed", c, r)
    /\ UNCHANGED <<mounted, store, storedName, draft, fieldErrors, ops>>

\* handleCancel after the delay: setCurrentBank(null), form.reset() and the
\* awaited call of fetchUnassignedBank, up to its GET.
CancelDelayDone(c, r) ==
    /\ Awaiting(c, r)
    /\ r.kind = "cancel" /\ r.pc = "delay"
    /\ runs' = [runs EXCEPT ![c] = AddRun(DropRun(runs[c], r), [r EXCEPT !.pc = "selGet"])]
    /\ draft' = [draft EXCEPT ![c] = DefaultDraft]
    /\ fieldErrors' = [fieldErrors EXCEPT ![c] = {}]
    /\ Render(c, userName[c], NoBank, TRUE, NoError)
    /\ Step("cancelDelayDone", c, r)
    /\ UNCHANGED <<mounted, store, storedName, ops, fails>>

----
AllRuns == UNION {RunsOf(c) : c \in mounted}

Next ==
    \/ \E c \in mounted : RunEffect(c)
    \/ \E c \in mounted : Retry(c)
    \/ \E c \in mounted, input \in NameInputs : NameSubmit(c, input)
    \/ \E c \in mounted, input \in NameInputs \cup {PromptNull} : NameChange(c, input)
    \/ \E c \in mounted : Cancel(c)
    \/ \E c \in mounted, d \in CoreDrafts : Submit(c, d)
    \/ \E c \in mounted, r \in AllRuns, ok \in BOOLEAN : FetchAllDone(c, r, ok)
    \/ \E c \in mounted, r \in AllRuns : SelectGetFailed(c, r)
    \/ \E c \in mounted, r \in AllRuns : SelectNone(c, r)
    \/ \E c \in mounted, r \in AllRuns, randomIndex \in 1..NumBanks : SelectPick(c, r, randomIndex)
    \/ \E c \in mounted, r \in AllRuns, ok \in BOOLEAN : ClaimDone(c, r, ok)
    \/ \E c \in mounted, r \in AllRuns : SubmitOk(c, r)
    \/ \E c \in mounted, r \in AllRuns : SubmitFailed(c, r)
    \/ \E c \in mounted, r \in AllRuns : CancelPutOk(c, r)
    \/ \E c \in mounted, r \in AllRuns : CancelFailed(c, r)
    \/ \E c \in mounted, r \in AllRuns : CancelDelayDone(c, r)

Spec == Init /\ [][Next]_vars

----
\* The client with a store that answers every request, with success or with
\* failure, and effects that run after the render that schedules them.
Answer(c) ==
    \E r \in AllRuns :
        \/ \E ok \in BOOLEAN : FetchAllDone(c, r, ok)
        \/ SelectGetFailed(c, r)
        \/ SelectNone(c, r)
        \/ \E randomIndex \in 1..NumBanks : SelectPick(c, r, randomIndex)
        \/ \E ok \in BOOLEAN : ClaimDone(c, r, ok)
        \/ SubmitOk(c, r)
        \/ SubmitFailed(c, r)
        \/ CancelPutOk(c, r)
        \/ CancelFailed(c, r)
        \/ CancelDelayDone(c, r)

FairAnswers == \A c \in Clients : WF_vars(RunEffect(c)) /\ WF_vars(Answer(c))

SpecLive == Init /\ [][Next]_vars /\ FairAnswers

----
\* The submission path explored with every draft of Drafts: a client that
\* starts with a stored name, selects, and has one caller action left, a
\* submission.
InitForm == InitWith({"c1"}, MaxOps - 1) /\ storedName["c1"] = Al

NextForm ==
    \/ \E c \in mounted : RunEffect(c)
    \/ \E c \in mounted, d \in Drafts : Submit(c, d)
    \/ \E c \in mounted, r \in AllRuns, ok \in BOOLEAN : FetchAllDone(c, r, ok)
    \/ \E c \in mounted, r \in AllRuns : SelectGetFailed(c, r)
    \/ \E c \in mounted, r \in AllRuns : SelectNone(c, r)
    \/ \E c \in mounted, r \in AllRuns, randomIndex \in 1..NumBanks : SelectPick(c, r, randomIndex)
    \/ \E c \in mounted, r \in AllRuns, ok \in BOOLEAN : ClaimDone(c, r, ok)
    \/ \E c \in mounted, r \in AllRuns : SubmitOk(c, r)
    \/ \E c \in mounted, r \in AllRuns : SubmitFailed(c, r)

SpecForm == InitForm /\ [][NextForm]_vars

----
\* Two clients under different identities, both mounted with a stored name,
\* and no caller action: the effects and the answers of the store only.
InitClients(used) ==
    /\ mounted = Clients
    /\ store \in [Ids -> UNION {{FreshRow(i, Empty), FreshRow(i, Bob)} : i \in Ids}]
    /\ \A i \in Ids : store[i].id = i
    /\ storedName = [c \in Clients |-> IF c = "c1" THEN Al ELSE Cy]
    /\ userName = storedName
    /\ currentBank = [c \in Clients |-> NoBank]
    /\ loading = [c \in Clients |-> TRUE]
    /\ error = [c \in Clients |-> NoError]
    /\ draft = [c \in Clients |-> DefaultDraft]
    /\ fieldErrors = [c \in Clients |-> {}]
    /\ effectDue = [c \in Clients |-> FALSE]
    /\ runs = [c \in Clients |-> MountRuns(storedName[c])]
    /\ ops = used
    /\ fails = 0
    /\ lastStep = [op |-> "mount", c |-> "c1", run |-> NoRun]

InitTwo == InitClients(MaxOps)

NextTwo ==
    \/ \E c \in mounted : RunEffect(c)
    \/ \E c \in mounted, r \in AllRuns, ok \in BOOLEAN : FetchAllDone(c, r, ok)
    \/ \E c \in mounted, r \in AllRuns : SelectGetFailed(c, r)
    \/ \E c \in mounted, r \in AllRuns : SelectNone(c, r)
    \/ \E c \in mounted, r \in AllRuns, randomIndex \in 1..NumBanks : SelectPick(c, r, randomIndex)
    \/ \E c \in mounted, r \in AllRuns, ok \in BOOLEAN : ClaimDone(c, r, ok)

SpecTwo == InitTwo /\ [][NextTwo]_vars

----
\* Two clients working on one store that never fails, with one caller
\* action between them: a submission of a valid draft or a cancel.
InitShared == InitClients(MaxOps - 1)

NextShared ==
    \/ \E c \in mounted : RunEffect(c)
    \/ \E c \in mounted : Cancel(c)
    \/ \E c \in mounted, d \in LoopDrafts : Submit(c, d)
    \/ \E c \in mounted, r \in AllRuns : FetchAllDone(c, r, TRUE)
    \/ \E c \in mounted, r \in AllRuns : SelectNone(c, r)
    \/ \E c \in mounted, r \in AllRuns, randomIndex \in 1..NumBanks : SelectPick(c, r, randomIndex)
    \/ \E c \in mounted, r \in AllRuns : ClaimDone(c, r, TRUE)
    \/ \E c \in mounted, r \in AllRuns : SubmitOk(c, r)
    \/ \E c \in mounted, r \in AllRuns : CancelPutOk(c, r)
    \/ \E c \in mounted, r \in AllRuns : CancelDelayDone(c, r)

SpecShared == InitShared /\ [][NextShared]_vars

----
\* The submit-then-next loop: one client with a stored name, a store that
\* never fails, and a caller who submits a valid draft for the record
\* presented, as often as a record is presented.  The caller waits while
\* MaxPending requests are in flight.
SubmitAgain(c, d) ==
    /\ BagCardinality(runs[c]) < MaxPending
    /\ HandleSubmit(c, d)
    /\ UNCHANGED ops

InitLoop == InitWith({"c1"}, 0) /\ storedName["c1"] = Al

NextLoop ==
    \/ \E c \in mounted : RunEffect(c)
    \/ \E c \in mounted, d \in LoopDrafts : SubmitAgain(c, d)
    \/ \E c \in mounted, r \in AllRuns : FetchAllDone(c, r, TRUE)
    \/ \E c \in mounted, r \in AllRuns : SelectNone(c, r)
    \/ \E c \in mounted, r \in AllRuns, randomIndex \in 1..NumBanks : SelectPick(c, r, randomIndex)
    \/ \E c \in mounted, r \in AllRuns : ClaimDone(c, r, TRUE)
    \/ \E c \in mounted, r \in AllRuns : SubmitOk(c, r)

\* The effect runs, every pending request is answered, and the caller
\* submits whenever a record stays presented.
FairLoop ==
    /\ WF_vars(RunEffect("c1"))
    /\ SF_vars(\E d \in LoopDrafts : SubmitAgain("c1", d))
    /\ WF_vars(\E r \in AllRuns : FetchAllDone("c1", r, TRUE))
    /\ WF_vars(\E r \in AllRuns : SelectNone("c1", r))
    /\ WF_vars(\E r \in AllRuns, randomIndex \in 1..NumBanks : SelectPick("c1", r, randomIndex))
    /\ WF_vars(\E r \in AllRuns : ClaimDone("c1", r, TRUE))
    /\ WF_vars(\E r \in AllRuns : SubmitOk("c1", r))

SpecLoop == InitLoop /\ [][NextLoop]_vars /\ FairLoop

----
\* Vocabulary of the properties.
IsEmptyName(v) == v = Empty \/ v = UNDEF
Snapshot == lastStep.run.banks
SnapshotHasUnassigned == \E i \in 1..Len(Snapshot) : IsEmptyName(Snapshot[i].userName)

\* The activations of client c that wait for the answer to a PUT, as a bag.
PendingPuts(B) == [r \in {x \in BagToSet(B) : x.pc \in {"put", "selPut"}} |-> B[r]]

----
\* C1: a selector run that fetched a snapshot with at least one record of
\* empty userName picks, and after its claim presents, a record of that
\* snapshot whose userName is empty there; it reports none only for a
\* snapshot without such a record.
C1_PresentsUnassignedOfSnapshot ==
    /\ lastStep.op \in {"selectPick", "claimOk"} =>
          /\ \E i \in 1..Len(Snapshot) :
                Snapshot[i] = lastStep.run.picked /\ IsEmptyName(Snapshot[i].userName)
          /\ \A i \in 1..Len(Snapshot) :
                Snapshot[i].id = lastStep.run.picked.id => IsEmptyName(Snapshot[i].userName)
    /\ lastStep.op = "claimOk" => currentBank[lastStep.c] = lastStep.run.picked
    /\ lastStep.op = "selectNone" => ~SnapshotHasUnassigned

\* A record was presented out of a snapshot that also held a claimed record.
C1_Witness ==
    /\ lastStep.op = "claimOk"
    /\ currentBank[lastStep.c] # NoBank
    /\ \E i \in 1..Len(Snapshot) : Snapshot[i].userName = Bob

----
\* C2: when the GET of a selector run is answered with no record of empty
\* userName, the run reports "no availability" as the message, presents
\* nothing, does not take the error path and sends no PUT.
C2_NoAvailability ==
    [][ ( /\ lastStep'.op \in {"selectNone", "selectPick"}
          /\ \A i \in Ids : ~IsEmptyName(store[i].userName) )
        => /\ lastStep'.op = "selectNone"
           /\ error'[lastStep'.c] = NoAvailabilityMsg
           /\ error'[lastStep'.c] # FetchFailedMsg
           /\ currentBank' = currentBank
           /\ store' = store
           /\ fails' = fails
           /\ PendingPuts(runs'[lastStep'.c]) = PendingPuts(runs[lastStep'.c]) ]_vars

\* A selector run has ended in "no availability" on a snapshot of claimed records.
C2_Witness ==
    /\ lastStep.op = "selectNone"
    /\ Len(Snapshot) = NumBanks /\ ~SnapshotHasUnassigned
    /\ error[lastStep.c] = NoAvailabilityMsg
    /\ currentBank[lastStep.c] = NoBank

\* C3: the claim PUT of a selector run is addressed to the picked record and
\* its body is the picked record as fetched with userName set to the
\* identity the client has at that moment; a single candidate is the pick.
C3_ClaimBodyCarriesCurrentIdentity ==
    lastStep.op = "selectPick" =>
       /\ lastStep.run.body.id = lastStep.run.picked.id
       /\ lastStep.run.body = [lastStep.run.picked EXCEPT !.userName = userName[lastStep.c]]
       /\ \A i \in 1..Len(Snapshot) :
             ( /\ IsEmptyName(Snapshot[i].userName)
               /\ \A j \in 1..Len(Snapshot) : IsEmptyName(Snapshot[j].userName) => j = i )
             => lastStep.run.picked = Snapshot[i]

\* C4 as stated: after a failed claim PUT the picked record is the current bank.
C4_PresentedDespiteFailedClaim ==
    lastStep.op = "claimFailed" => currentBank[lastStep.c] = lastStep.run.picked

\* C4 amended: a failed claim PUT leaves the current bank and the store as
\* they were, sets the error message of the fetch failure and ends the run
\* with loading false.
C4_FailedClaimPresentsNothing ==
    [][ lastStep'.op = "claimFailed"
        => /\ currentBank' = currentBank
           /\ store' = store
           /\ error'[lastStep'.c] = FetchFailedMsg
           /\ ~loading'[lastStep'.c]
           /\ lastStep'.run.picked # NoBank ]_vars

\* A claim PUT has failed while no record was held.
C4_Witness ==
    /\ lastStep.op = "claimFailed"
    /\ lastStep.run.picked \in {store[i] : i \in Ids}
    /\ currentBank[lastStep.c] = NoBank
    /\ error[lastStep.c] = FetchFailedMsg

----
\* The steps that are a click on "Submit and Get Next".
SubmitSteps == {"submitInvalid", "submitRejected", "submit"}

\* The draft the last step submitted.
Submitted == draft[lastStep.c]

\* C5: a submission whose response is address_change and whose updateAddress
\* is empty or absent is rejected with a validation error (of the schema or
\* of the address check), sends no PUT, and leaves the held record held.
C5_AddressChangeNeedsAddress ==
    [][ ( /\ lastStep'.op \in SubmitSteps
          /\ draft'[lastStep'.c].response = "address_change"
          /\ IsEmptyName(draft'[lastStep'.c].updateAddress) )
        => /\ lastStep'.op # "submit"
           /\ runs' = runs
           /\ store' = store
           /\ currentBank' = currentBank
           /\ currentBank'[lastStep'.c] # NoBank
           /\ \/ fieldErrors'[lastStep'.c] # {}
              \/ error'[lastStep'.c] = AddressRequiredMsg ]_vars

\* The address check has rejected a draft the schema accepts.
C5_Witness ==
    /\ lastStep.op = "submitRejected"
    /\ Submitted.response = "address_change"
    /\ Submitted.updateAddress = UNDEF
    /\ error[lastStep.c] = AddressRequiredMsg
    /\ currentBank[lastStep.c] # NoBank

\* C6: a submission with phoneResponse toll_free or registered_only and no
\* response is rejected and sends no PUT; with any other phoneResponse a
\* draft without response is rejected only by the schema.
C6_ResponseRequiredForSuccessfulCalls ==
    [][ ( /\ lastStep'.op \in SubmitSteps
          /\ draft'[lastStep'.c].response = UNSET )
        => IF draft'[lastStep'.c].phoneResponse \in {"toll_free", "registered_only"}
           THEN /\ lastStep'.op # "submit"
                /\ runs' = runs
                /\ store' = store
           ELSE \/ fieldErrors'[lastStep'.c] # {}
                \/ /\ lastStep'.op = "submit"
                   /\ PendingPuts(runs'[lastStep'.c]) # PendingPuts(runs[lastStep'.c]) ]_vars

\* A draft with phoneResponse no_response and no response has been sent.
C6_Witness ==
    /\ lastStep.op = "submit"
    /\ Submitted.phoneResponse = "no_response"
    /\ Submitted.response = UNSET
    /\ lastStep.run.body.phoneResponse = "no_response"

\* The conditional outcome invariant of a record or of a PUT body.
OutcomeConsistent(b) ==
    /\ b.response \in {"address_change", "bank_shift"} => ~IsEmptyName(b.updateAddress)
    /\ b.response \in {"branch_name_change", "name_change"} => ~IsEmptyName(b.updatedBranchName)
    /\ b.response = "name_and_address_change" =>
          ~IsEmptyName(b.updateAddress) /\ ~IsEmptyName(b.updatedBranchName)

\* C7: every PUT body of a submission, and every row of the store, satisfies
\* the conditional outcome invariant.
C7_OutcomeInvariant ==
    /\ \A c \in mounted : \A r \in RunsOf(c) :
          r.kind = "submit" => OutcomeConsistent(r.body)
    /\ \A i \in Ids : OutcomeConsistent(store[i])

\* A bank_shift and a branch_name_change outcome are sent or stored.
C7_Witness ==
    /\ lastStep.op = "submitOk"
    /\ \E i \in Ids : /\ store[i].response \in {"bank_shift", "branch_name_change"}
                      /\ OutcomeConsistent(store[i])

\* C8: the PUT body of a submission has the fields of the held record, its
\* descriptive fields as fetched (those of the row in the store) and its
\* outcome fields as parsed from the draft.
C8_SubmitKeepsDescriptiveFields ==
    lastStep.op = "submit" =>
       /\ lastStep.run.bank = currentBank[lastStep.c]
       /\ DOMAIN lastStep.run.body = DOMAIN currentBank[lastStep.c]
       /\ \A f \in DescriptiveFields :
             /\ lastStep.run.body[f] = currentBank[lastStep.c][f]
             /\ lastStep.run.body[f] = store[lastStep.run.body.id][f]
       /\ \A f \in OutcomeFields \ {"remarks"} : lastStep.run.body[f] = Submitted[f]
       /\ lastStep.run.body.remarks =
             IF IsEmptyName(Submitted.remarks) THEN Empty ELSE Submitted.remarks

\* A valid draft with an address has been sent for a held record.
C8_Witness ==
    /\ lastStep.op = "submit"
    /\ Submitted.updateAddress = AddressGood
    /\ lastStep.run.body.updateAddress = AddressGood
    /\ lastStep.run.body.bankName = currentBank[lastStep.c].bankName

\* C9 as stated: the PUT body of a cancel is addressed to the held record and
\* has userName and every outcome field empty, and after the cancel no record
\* is displayed.
C9_CancelResetsAllOutcomeFields ==
    /\ lastStep.op = "cancel" =>
          /\ lastStep.run.body.id = currentBank[lastStep.c].id
          /\ lastStep.run.body.userName = Empty
          /\ \A f \in OutcomeFields \ EnumFields : lastStep.run.body[f] = Empty
          /\ \A f \in EnumFields : lastStep.run.body[f] = ""
    /\ lastStep.op = "cancelDelayDone" => currentBank[lastStep.c] = NoBank

\* C10 as stated: after the PUT of a submit or of a cancel has failed the
\* client holds the record the operation was started on, with the draft as
\* it was, shows the error, and starts no selection.
C10_FailureKeepsRecord ==
    [][ lastStep'.op \in {"submitFailed", "cancelFailed"}
        => /\ currentBank'[lastStep'.c] = lastStep'.run.bank
           /\ draft' = draft
           /\ error'[lastStep'.c] \in {UpdateFailedMsg, CancelFailedMsg}
           /\ ~loading'[lastStep'.c]
           /\ ~effectDue'[lastStep'.c]
           /\ \A r \in BagToSet(runs'[lastStep'.c]) : r \in BagToSet(runs[lastStep'.c]) ]_vars

----
\* C11 as stated: the client issues no fetch by itself while the result of a
\* selector run ("no availability" or the fetch failure) is displayed without
\* a record; only the caller's retry starts the next selector run.
C11_NoAutomaticRetry ==
    [][ ( /\ lastStep'.op = "effect"
          /\ currentBank[lastStep'.c] = NoBank )
        => error[lastStep'.c] \notin {NoAvailabilityMsg, FetchFailedMsg} ]_vars

\* The selector activations of a bag: those of fetchUnassignedBank that wait
\* for the GET or for the claim PUT.
SelectorRuns(B) == [r \in {x \in BagToSet(B) : Selecting(x) \/ Claiming(x)} |-> B[r]]

\* The activations of a bag that wait for an answer of the store.
StoreRequests(B) == [r \in {x \in BagToSet(B) : x.pc # "delay"} |-> B[r]]

\* C13 as stated: while a request of a client to the store is pending, the
\* loading flag of that client is true.
C13_PendingImpliesLoading ==
    \A c \in mounted :
        (~effectDue[c] /\ BagCardinality(StoreRequests(runs[c])) > 0) => loading[c]

\* C14 as stated: a client has at most one selector run in flight, and a claim
\* it has sent is for the record it presents next.
C14_OneSelectorRun ==
    /\ \A c \in mounted : BagCardinality(SelectorRuns(runs[c])) <= 1
    /\ lastStep.op = "claimOk" =>
          \A r \in RunsOf(lastStep.c) : Claiming(r) => r.picked.id = lastStep.run.picked.id

\* C20 as stated: the record a cancel presents next is not the cancelled one.
C20_CancelMovesToAnotherRecord ==
    (lastStep.op = "claimOk" /\ lastStep.run.kind = "cancel")
        => currentBank[lastStep.c].id # lastStep.run.bank.id

----
\* t is s without its leading and trailing whitespace.
IsTrimOf(t, s) ==
    \E i \in 1..(Len(s) + 1), j \in 0..Len(s) :
        /\ t = SubSeq(s, i, j)
        /\ \A k \in 1..(i - 1) : s[k] \in Whitespace
        /\ \A k \in (j + 1)..Len(s) : s[k] \in Whitespace
        /\ t # <<>> => (t[1] \notin Whitespace /\ t[Len(t)] \notin Whitespace)

\* C16: setting the identity (name form or Change Name) with an input that is
\* absent or empty after trimming changes neither userName nor the stored
\* userName; with any other input both become the trimmed input.
C16_IdentityIsTrimmedInput ==
    [][ lastStep'.op \in {"nameSubmit", "nameChange"}
        => IF \/ lastStep'.run.value = PromptNull
              \/ IsTrimOf(<<>>, lastStep'.run.value)
           THEN userName' = userName /\ storedName' = storedName
           ELSE /\ IsTrimOf(userName'[lastStep'.c], lastStep'.run.value)
                /\ storedName'[lastStep'.c] = userName'[lastStep'.c]
                /\ \A c \in Clients \ {lastStep'.c} :
                      userName'[c] = userName[c] /\ storedName'[c] = storedName[c] ]_vars

\* The identity has been changed to an input typed with surrounding blanks.
C16_Witness ==
    /\ lastStep.op = "nameChange"
    /\ lastStep.run.value = <<" ", "C", "y", " ">>
    /\ userName[lastStep.c] = Cy
    /\ storedName[lastStep.c] = Cy

----
\* The phoneNumber rule as the specification words it.
PhoneRule(p) ==
    /\ p # UNDEF
    /\ Len(p) \in 10..15
    /\ \A i \in 1..Len(p) : p[i] \in Digits
    /\ p[1] # "0"

\* C17: a submission's phoneNumber is accepted by the schema exactly when it
\* has 10 to 15 characters, all digits, the first not 0; "09876543210" is
\* rejected and "9876543210" accepted; a draft with a rejected phoneNumber
\* sends no PUT and changes no row.
C17_PhoneNumberRule ==
    [][ lastStep'.op \in SubmitSteps
        => LET p == draft'[lastStep'.c].phoneNumber
               rejected == "phoneNumber" \in fieldErrors'[lastStep'.c]
           IN /\ rejected <=> ~PhoneRule(p)
              /\ p = <<"0", "9", "8", "7", "6", "5", "4", "3", "2", "1", "0">> => rejected
              /\ p = <<"9", "8", "7", "6", "5", "4", "3", "2", "1", "0">> => ~rejected
              /\ rejected => /\ lastStep'.op = "submitInvalid"
                             /\ runs' = runs
                             /\ store' = store ]_vars

\* A phoneNumber with a leading zero has been rejected for that reason alone.
C17_Witness ==
    /\ lastStep.op = "submitInvalid"
    /\ Submitted.phoneNumber = PhoneLeadingZero
    /\ fieldErrors[lastStep.c] = {"phoneNumber"}

\* The number of words of s: the maximal runs of characters other than blanks.
Words(s) ==
    Cardinality({i \in 1..Len(s) : s[i] \notin Whitespace /\ (i = 1 \/ s[i - 1] \in Whitespace)})

\* C18 as stated: an updateAddress that is not empty and that the schema
\* accepts has 10 to 200 characters, all of them letters, digits, the space
\* character, comma, dot or hyphen, and at least 3 words.
C18_AcceptedAddress ==
    [][ ( /\ lastStep'.op \in SubmitSteps
          /\ ~IsEmptyName(draft'[lastStep'.c].updateAddress)
          /\ "updateAddress" \notin fieldErrors'[lastStep'.c] )
        => LET a == draft'[lastStep'.c].updateAddress
           IN /\ Len(a) \in 10..200
              /\ AllIn(a, UpperCase \cup LowerCase \cup Digits \cup {" ", ",", ".", "-"})
              /\ Words(a) >= 3 ]_vars

\* The conditional checks of a draft in their order: which are unmet, and the
\* reason each surfaces.
UnmetRules(d) ==
    << d.phoneResponse \in {"toll_free", "registered_only"} /\ d.response = UNSET,
       d.response = "address_change" /\ IsEmptyName(d.updateAddress),
       d.response = "branch_name_change" /\ IsEmptyName(d.updatedBranchName),
       d.response = "bank_shift" /\ IsEmptyName(d.updateAddress) >>

RuleReasons ==
    << ResponseRequiredMsg, AddressRequiredMsg, BranchRequiredMsg, ShiftRequiredMsg >>

\* C19: a submission the schema rejects surfaces field errors only and runs
\* no conditional check; a schema-valid one with an unmet check surfaces the
\* reason of the first unmet check in order and nothing else; neither sends a
\* PUT nor changes a row; a draft that passes all of them is sent.
C19_SchemaThenRulesInOrder ==
    [][ lastStep'.op \in SubmitSteps
        => LET c == lastStep'.c
               unmet == UnmetRules(draft'[c])
           IN IF fieldErrors'[c] # {}
              THEN /\ lastStep'.op = "submitInvalid"
                   /\ error' = error /\ loading' = loading
                   /\ runs' = runs /\ store' = store
              ELSE IF \E k \in 1..4 : unmet[k]
              THEN /\ lastStep'.op = "submitRejected"
                   /\ \E k \in 1..4 : /\ unmet[k]
                                      /\ \A j \in 1..(k - 1) : ~unmet[j]
                                      /\ error'[c] = RuleReasons[k]
                   /\ runs' = runs /\ store' = store
              ELSE lastStep'.op = "submit" ]_vars

\* A draft that the schema rejects and that also leaves a check unmet has
\* surfaced the field error without the reason of the check.
C19_Witness ==
    /\ lastStep.op = "submitInvalid"
    /\ Submitted.phoneNumber = PhoneLeadingZero
    /\ Submitted.phoneResponse = "toll_free" /\ Submitted.response = UNSET
    /\ error[lastStep.c] = NoError

----
\* C12 as stated: the submit-then-next loop reaches the "no availability"
\* result with no record of empty userName left in the store.
C12_LoopReachesNoAvailability ==
    <>( /\ lastStep.op = "selectNone"
        /\ \A i \in Ids : ~IsEmptyName(store[i].userName) )

\* C15: a successful claim writes the claimant's identity as the userName of
\* the picked row whoever claimed it before, and leaves the record every
\* other client presents as it is; so two clients come to present one record.
C15_LastClaimWins ==
    [][ lastStep'.op = "claimOk"
        => /\ store'[lastStep'.run.picked.id].userName = lastStep'.run.uname
           /\ currentBank'[lastStep'.c] = lastStep'.run.picked
           /\ \A c \in Clients \ {lastStep'.c} : currentBank'[c] = currentBank[c] ]_vars

\* Both clients present the same record under different identities, and the
\* row carries the identity of the one whose claim was answered last.
C15_Witness ==
    /\ lastStep.op = "claimOk"
    /\ currentBank["c1"] # NoBank
    /\ currentBank["c1"].id = currentBank["c2"].id
    /\ userName["c1"] # userName["c2"]
    /\ store[currentBank["c1"].id].userName = userName[lastStep.c]
    /\ \E c \in Clients \ {lastStep.c} :
          store[currentBank[c].id].userName # userName[c]

----
\* C24 as stated: after a successful submission the row of the submitted
\* record has a userName that is not empty.
C24_SubmittedStaysClaimed ==
    lastStep.op = "submitOk" => ~IsEmptyName(store[lastStep.run.bank.id].userName)

\* C25 as stated: the record a client presents is replaced or cleared only by
\* that client's successful submit or by its cancel.
C25_HeldRecordReplacedOnlyByOwnOperation ==
    [][ \A c \in mounted :
          (currentBank[c] # NoBank /\ currentBank'[c] # currentBank[c])
             => /\ lastStep'.c = c
                /\ lastStep'.op \in {"submitOk", "cancelDelayDone"}
                /\ lastStep'.run.bank = currentBank[c] ]_vars

\* C27 as stated: a presented record, with nothing pending, has the client's
\* identity as its userName in the store.
C27_StoredOwnerIsIdentity ==
    \A c \in mounted :
        (currentBank[c] # NoBank /\ ~effectDue[c] /\ runs[c] = EmptyBag)
           => store[currentBank[c].id].userName = userName[c]

\* C28: while the identity of a client is empty it has no activation other
\* than fetchAllBanks, so no selector run and no PUT; every activation of a
\* selector, submit or cancel was started under a non-empty identity, and
\* every claim body carries a non-empty userName.
C28_NoSelectorWithoutIdentity ==
    \A c \in mounted : \A r \in RunsOf(c) :
        /\ userName[c] = Empty => r.kind = "fetchAll"
        /\ r.kind # "fetchAll" => ~IsEmptyName(r.uname)
        /\ Claiming(r) => ~IsEmptyName(r.body.userName)

\* A client that mounted without identity has claimed under the name typed
\* into the name form.
C28_Witness ==
    /\ lastStep.op = "selectPick"
    /\ lastStep.run.body.userName = Cy
    /\ userName[lastStep.c] = Cy

\* C29: the stored userName equals the identity in memory, and an identity
\* that is not empty is never followed by an empty one.
C29_IdentityStays ==
    [][ \A c \in Clients :
          /\ storedName'[c] = userName'[c]
          /\ userName[c] # Empty => (userName'[c] # Empty /\ userName'[c] # UNDEF) ]_vars

\* A blank name was typed into Change Name and the identity is still there.
C29_Witness ==
    /\ lastStep.op = "nameChange"
    /\ lastStep.run.value = <<" ", "\t">>
    /\ userName[lastStep.c] = Al
    /\ storedName[lastStep.c] = Al

\* C30 as stated: the body of a submission carries an updateAddress only for
\* the responses address_change and bank_shift, and an updatedBranchName only
\* for branch_name_change.
C30_OnlySelectedConditionalFields ==
    lastStep.op = "submit" =>
       /\ ~IsEmptyName(lastStep.run.body.updateAddress)
             => lastStep.run.body.response \in {"address_change", "bank_shift"}
       /\ ~IsEmptyName(lastStep.run.body.updatedBranchName)
             => lastStep.run.body.response = "branch_name_change"

----
\* A cancel of the bag waits for its reset PUT or for the settling delay.
CancelWaits(B) == \E r \in BagToSet(B) : r.kind = "cancel" /\ r.pc \in {"put", "delay"}

\* The activations of a bag that wait for the answer to a GET of a selector.
PendingGets(B) == [r \in {x \in BagToSet(B) : Selecting(x)} |-> B[r]]

\* C23 as stated: while a cancel waits for its reset PUT or for the delay,
\* the client sends no GET for the next assignment and keeps the held record.
C23_CancelFetchesOnlyAfterDelay ==
    [][ \A c \in mounted :
          (CancelWaits(runs[c]) /\ CancelWaits(runs'[c]))
             => /\ BagCardinality(PendingGets(runs'[c])) <= BagCardinality(PendingGets(runs[c]))
                /\ currentBank'[c] # NoBank ]_vars

----
\* C21: the store always holds the rows it held initially, each under its
\* id and with its descriptive fields as they were.
C21_DescriptiveFieldsUnchanged ==
    /\ DOMAIN store = Ids
    /\ \A i \in Ids :
          /\ store[i].id = i
          /\ DOMAIN store[i] = DOMAIN FreshRow(i, Empty)
          /\ \A f \in DescriptiveFields : store[i][f] = FreshRow(i, Empty)[f]

\* One client's submission has been stored while the other client presents
\* a record it claimed.
C21_Witness ==
    /\ lastStep.op = "submitOk"
    /\ store[lastStep.run.bank.id].response = "address_change"
    /\ \E c \in Clients \ {lastStep.c} : currentBank[c] # NoBank
    /\ \E i \in Ids : store[i].userName \in {Al, Cy}

\* C26 as stated: a successful claim leaves the outcome fields of the row it
\* is written to as they were.
C26_ClaimKeepsStoredOutcome ==
    [][ lastStep'.op = "claimOk"
        => \A f \in OutcomeFields :
              store'[lastStep'.run.picked.id][f] = store[lastStep'.run.picked.id][f] ]_vars

----
\* C22: whenever the loading flag of a client is true, as it is from the
\* start of every select, submit and cancel, a state follows in which it is
\* false, whether the operation succeeds, is rejected or fails.
C22_ReturnsToInteractive ==
    \A c \in Clients : loading[c] ~> ~loading[c]

\* A submission has failed and the client is interactive again, holding the
\* record.
C22_Witness ==
    /\ lastStep.op = "submitFailed"
    /\ ~loading[lastStep.c]
    /\ error[lastStep.c] = UpdateFailedMsg
    /\ currentBank[lastStep.c] # NoBank

====
